---------------------------- MODULE Spec2Model ----------------------------
(***************************************************************************)
(* The in-memory FIFO inventory ledger of src/core.py (class Inventory).   *)
(*                                                                         *)
(* Quantities are floats in the source.  Here they are integers counted in *)
(* units no coarser than the source's absolute tolerance: the literal 1e-9 *)
(* of core.py is tol units.  The unit is fixed when the ledger is built    *)
(* and never changes: with tol = TOL a quantity of 1 unit is a whole       *)
(* tolerance, with tol = TOL_FINE it is half of one, so that two lots      *)
(* within the tolerance can lie in one bucket with a sum within it.  Unit  *)
(* costs are integers; a value is quantity * unit cost.                    *)
(*                                                                         *)
(* StockLot.received_at (datetime.utcnow at construction) is read by no    *)
(* method of Inventory and is left out of the lot record.                  *)
(***************************************************************************)
EXTENDS Integers, Sequences, FiniteSets, TLC

VARIABLES
    lots,       \* Inventory._lots: item_id -> warehouse_id -> list of StockLot
    lot_seq,    \* Inventory._lot_seq
    call,       \* the last call made on the ledger: its name and arguments
    ret,        \* what that call returned or raised
    pre,        \* _lots and _lot_seq as they were when that call was made
    assigned,   \* every value _next_lot_id has returned, oldest first
    tol         \* the literal 1e-9 of lines 113, 121 and 127, in units

vars == <<lots, lot_seq, call, ret, pre, assigned, tol>>

---------------------------------------------------------------------------
(* Bounds of the model and the inputs the callers draw from.               *)

MaxQty == 5          \* issue and transfer are called with qty in -1 .. MaxQty
MaxLotId == 4        \* calls are made while the identities stay <= MaxLotId

TOL == 1             \* the 1e-9 of lines 113, 121 and 127, in units
TOL_FINE == 2        \* the same 1e-9 counted in units half as large

ItemIds == {1}
WarehouseIds == {1, 2}
NoWarehouse == 0     \* warehouse_id=None of the reporting helpers
NoLotNo == "None"
NoExpiry == "None"

(* The argument tuples receive is called with; 0 and -1 are the            *)
(* non-positive quantities.                                                *)
Receipt(qty, cost_per_unit, lot_no, expiry_date) ==
    [qty |-> qty, cost_per_unit |-> cost_per_unit, lot_no |-> lot_no,
     expiry_date |-> expiry_date]

Receipts ==
    { Receipt(2, 2, NoLotNo, "E1"),
      Receipt(4, 3, "L2", NoExpiry),
      Receipt(0, 2, NoLotNo, NoExpiry),
      Receipt(-1, 3, "L1", "E1") }

QtyInputs == (-1) .. MaxQty

---------------------------------------------------------------------------
(* Arithmetic helpers (Python's min and sum).                              *)

Min(a, b) == IF a <= b THEN a ELSE b

RECURSIVE SumQty(_)
SumQty(ls) == IF ls = <<>> THEN 0 ELSE Head(ls).qty + SumQty(Tail(ls))

RECURSIVE SumValue(_)
SumValue(ls) ==
    IF ls = <<>> THEN 0
    ELSE Head(ls).qty * Head(ls).cost_per_unit + SumValue(Tail(ls))

(* cost = lot.qty * lot.cost_per_unit: what is left in the lot, not what   *)
(* was drawn, times the unit cost.                                         *)
ConsumptionCost_LotQty(c) == c.lot.qty * c.lot.cost_per_unit

(* Consumption.cost, core.py:44-46: qty * lot.cost_per_unit.                *)
ConsumptionCost(c) == c.qty * c.lot.cost_per_unit

RECURSIVE SumCost(_)
SumCost(cs) ==
    IF cs = <<>> THEN 0 ELSE ConsumptionCost(Head(cs)) + SumCost(Tail(cs))

RECURSIVE SumTaken(_)
SumTaken(cs) == IF cs = <<>> THEN 0 ELSE Head(cs).qty + SumTaken(Tail(cs))

---------------------------------------------------------------------------
(* The increment of line 69 left out: the counter stays where it was.      *)
SeqAfterLotId_Same(seq) == seq

(* Inventory._next_lot_id: the identity handed out, and the counter after. *)

LotIdFrom(seq) == seq

SeqAfterLotId(seq) == seq + 1

(* Inventory._get_lots: dict.setdefault twice.  The mapping after the call *)
(* has the item key and the warehouse key whether or not it had them.      *)
SetDefault(m, item_id, warehouse_id) ==
    LET m1 == IF item_id \in DOMAIN m THEN m
              ELSE [i \in DOMAIN m \cup {item_id} |->
                       IF i = item_id THEN <<>> ELSE m[i]]
        b  == m1[item_id]
        b1 == IF warehouse_id \in DOMAIN b THEN b
              ELSE [w \in DOMAIN b \cup {warehouse_id} |->
                       IF w = warehouse_id THEN <<>> ELSE b[w]]
    IN  [m1 EXCEPT ![item_id] = b1]

(* The list _get_lots returns, read from the mapping it leaves behind.     *)
BucketOf(m, item_id, warehouse_id) ==
    IF item_id \in DOMAIN m /\ warehouse_id \in DOMAIN m[item_id]
    THEN m[item_id][warehouse_id]
    ELSE <<>>

(* qty < 0: a quantity of zero is let through.                             *)
IssueRejects_Negative(qty) == qty < 0

(* The quantity test of receive (line 92) and of issue (line 139).         *)
ReceiveRejects(qty) == qty <= 0

IssueRejects(qty) == qty <= 0

(* The StockLot receive constructs, lines 94-102.                          *)
NewLot(id, item_id, warehouse_id, qty, cost_per_unit, lot_no, expiry_date) ==
    [id |-> id, item_id |-> item_id, warehouse_id |-> warehouse_id,
     qty |-> qty, cost_per_unit |-> cost_per_unit,
     lot_no |-> lot_no, expiry_date |-> expiry_date]

(* receive putting the new lot at the front of the list: lots.insert(0,    *)
(* lot) in place of lots.append(lot).                                      *)
ReceiveOn_Front(m, seq, item_id, warehouse_id, qty, cost_per_unit, lot_no, expiry_date) ==
    IF ReceiveRejects(qty)
    THEN [status |-> "ValueError", lots |-> m, lot_seq |-> seq, created |-> <<>>]
    ELSE LET lot == NewLot(LotIdFrom(seq), item_id, warehouse_id, qty,
                           cost_per_unit, lot_no, expiry_date)
             m1  == SetDefault(m, item_id, warehouse_id)
         IN  [status  |-> "ok",
              lots    |-> [m1 EXCEPT ![item_id][warehouse_id] = <<lot>> \o @],
              lot_seq |-> SeqAfterLotId(seq),
              created |-> <<lot>>]


(* receive adding the quantity to the newest lot of the bucket when that   *)
(* lot has the same unit cost, in place of creating a lot.                 *)
ReceiveOn_Merge(m, seq, item_id, warehouse_id, qty, cost_per_unit, lot_no, expiry_date) ==
    IF ReceiveRejects(qty)
    THEN [status |-> "ValueError", lots |-> m, lot_seq |-> seq, created |-> <<>>]
    ELSE LET lot == NewLot(LotIdFrom(seq), item_id, warehouse_id, qty,
                           cost_per_unit, lot_no, expiry_date)
             m1  == SetDefault(m, item_id, warehouse_id)
             b   == m1[item_id][warehouse_id]
         IN  IF b # <<>> /\ b[Len(b)].cost_per_unit = cost_per_unit
             THEN [status  |-> "ok",
                   lots    |-> [m1 EXCEPT ![item_id][warehouse_id][Len(b)].qty
                                              = @ + qty],
                   lot_seq |-> seq,
                   created |-> <<>>]
             ELSE [status  |-> "ok",
                   lots    |-> [m1 EXCEPT ![item_id][warehouse_id] = Append(@, lot)],
                   lot_seq |-> SeqAfterLotId(seq),
                   created |-> <<lot>>]


(* receive appending the lot to the list of every item that has a list for *)
(* the warehouse: one list object shared between the items.                *)
ReceiveOn_SharedList(m, seq, item_id, warehouse_id, qty, cost_per_unit, lot_no, expiry_date) ==
    IF ReceiveRejects(qty)
    THEN [status |-> "ValueError", lots |-> m, lot_seq |-> seq, created |-> <<>>]
    ELSE LET lot == NewLot(LotIdFrom(seq), item_id, warehouse_id, qty,
                           cost_per_unit, lot_no, expiry_date)
             m1  == SetDefault(m, item_id, warehouse_id)
         IN  [status  |-> "ok",
              lots    |-> [i \in DOMAIN m1 |->
                             IF warehouse_id \in DOMAIN m1[i]
                             THEN [m1[i] EXCEPT ![warehouse_id] = Append(@, lot)]
                             ELSE m1[i]],
              lot_seq |-> SeqAfterLotId(seq),
              created |-> <<lot>>]


(* Inventory.receive on mapping m and counter seq.  created is <<lot>> on  *)
(* success and <<>> when ValueError is raised.                             *)
ReceiveOn(m, seq, item_id, warehouse_id, qty, cost_per_unit, lot_no, expiry_date) ==
    IF ReceiveRejects(qty)
    THEN [status |-> "ValueError", lots |-> m, lot_seq |-> seq, created |-> <<>>]
    ELSE LET lot == NewLot(LotIdFrom(seq), item_id, warehouse_id, qty,
                           cost_per_unit, lot_no, expiry_date)
             m1  == SetDefault(m, item_id, warehouse_id)
         IN  [status  |-> "ok",
              lots    |-> [m1 EXCEPT ![item_id][warehouse_id] = Append(@, lot)],
              lot_seq |-> SeqAfterLotId(seq),
              created |-> <<lot>>]

---------------------------------------------------------------------------
(* Inventory._consume.                                                     *)

(* The availability test left out: nothing is ever insufficient.           *)
Insufficient_Never(qty, total_available) == FALSE

(* The availability test without the tolerance: qty > total_available.     *)
Insufficient_Exact(qty, total_available) == qty > total_available


(* Line 113: qty > total_available + 1e-9.                                 *)
Insufficient(qty, total_available) == qty > total_available + tol

(* Line 121: remaining > 1e-9.                                             *)
StillNeeded(remaining) == remaining > tol

(* take = lot.qty: the whole lot whatever is still needed.                 *)
Take_Whole(lot_qty, remaining) == lot_qty

(* Line 123: take = min(lot.qty, remaining).                               *)
Take(lot_qty, remaining) == Min(lot_qty, remaining)

(* lot.qty < 0: a lot drawn down to nothing stays in the list.             *)
Exhausted_Negative(lot_qty) == lot_qty < 0

(* lot.qty <= 0: only a lot drawn down to nothing is removed.              *)
Exhausted_Exact(lot_qty) == lot_qty <= 0


(* Line 127: lot.qty <= 1e-9.                                              *)
Exhausted(lot_qty) == lot_qty <= tol

(* The loop drawing from the back of the list (lots[-1], lots.pop()):      *)
(* newest first.                                                           *)
RECURSIVE ConsumeLoop_Lifo(_, _, _)
ConsumeLoop_Lifo(ls, remaining, consumed) ==
    IF StillNeeded(remaining) /\ ls # <<>>
    THEN LET lot  == ls[Len(ls)]
             take == Take(lot.qty, remaining)
             lot1 == [lot EXCEPT !.qty = @ - take]
             front == SubSeq(ls, 1, Len(ls) - 1)
             ls1  == IF Exhausted(lot1.qty) THEN front
                     ELSE Append(front, lot1)
         IN  ConsumeLoop_Lifo(ls1, remaining - take,
                              Append(consumed, [lot |-> lot1, qty |-> take]))
    ELSE [bucket |-> ls, consumed |-> consumed]

(* The loop keeping a lot it has drawn down: lots.append(lots.pop(0)) in   *)
(* place of lots.pop(0).                                                   *)
RECURSIVE ConsumeLoop_KeepDrawn(_, _, _)
ConsumeLoop_KeepDrawn(ls, remaining, consumed) ==
    IF StillNeeded(remaining) /\ ls # <<>>
    THEN LET lot  == Head(ls)
             take == Take(lot.qty, remaining)
             lot1 == [lot EXCEPT !.qty = @ - take]
             ls1  == IF Exhausted(lot1.qty) THEN Tail(ls) \o <<lot1>>
                     ELSE <<lot1>> \o Tail(ls)
         IN  ConsumeLoop_KeepDrawn(ls1, remaining - take,
                                   Append(consumed, [lot |-> lot1, qty |-> take]))
    ELSE [bucket |-> ls, consumed |-> consumed]

(* Lines 121-128, one iteration per unfolding.  A Consumption holds a      *)
(* reference to the lot object, so its lot shows the lot's quantity after  *)
(* the draw.                                                               *)
RECURSIVE ConsumeLoop(_, _, _)
ConsumeLoop(ls, remaining, consumed) ==
    IF StillNeeded(remaining) /\ ls # <<>>
    THEN LET lot  == Head(ls)
             take == Take(lot.qty, remaining)
             lot1 == [lot EXCEPT !.qty = @ - take]
             ls1  == IF Exhausted(lot1.qty) THEN Tail(ls)
                     ELSE <<lot1>> \o Tail(ls)
         IN  ConsumeLoop(ls1, remaining - take,
                         Append(consumed, [lot |-> lot1, qty |-> take]))
    ELSE [bucket |-> ls, consumed |-> consumed]

(* _consume reading the bucket without creating it and treating a bucket   *)
(* that is not in the mapping as insufficient whatever the quantity.       *)
ConsumeOn_MissingBucket(m, item_id, warehouse_id, qty) ==
    IF ~(item_id \in DOMAIN m /\ warehouse_id \in DOMAIN m[item_id])
    THEN [status |-> "NegativeStockError", lots |-> m, consumed |-> <<>>]
    ELSE LET ls == m[item_id][warehouse_id]
             total_available == SumQty(ls)
         IN  IF Insufficient(qty, total_available)
             THEN [status |-> "NegativeStockError", lots |-> m, consumed |-> <<>>]
             ELSE LET r == ConsumeLoop(ls, qty, <<>>)
                  IN  [status   |-> "ok",
                       lots     |-> [m EXCEPT ![item_id][warehouse_id] = r.bucket],
                       consumed |-> r.consumed]


ConsumeOn(m, item_id, warehouse_id, qty) ==
    LET m1 == SetDefault(m, item_id, warehouse_id)
        ls == m1[item_id][warehouse_id]
        total_available == SumQty(ls)
    IN  IF Insufficient(qty, total_available)
        THEN [status |-> "NegativeStockError", lots |-> m1, consumed |-> <<>>]
        ELSE LET r == ConsumeLoop(ls, qty, <<>>)
             IN  [status   |-> "ok",
                  lots     |-> [m1 EXCEPT ![item_id][warehouse_id] = r.bucket],
                  consumed |-> r.consumed]

(* Inventory.issue.                                                        *)
IssueOn(m, item_id, warehouse_id, qty) ==
    IF IssueRejects(qty)
    THEN [status |-> "ValueError", lots |-> m, cost |-> 0, consumed |-> <<>>]
    ELSE LET r == ConsumeOn(m, item_id, warehouse_id, qty)
         IN  [status |-> r.status, lots |-> r.lots,
              cost |-> SumCost(r.consumed), consumed |-> r.consumed]

---------------------------------------------------------------------------
(* Inventory.transfer.                                                     *)

(* qty=c.lot.qty: what is left in the source lot, not what was drawn.      *)
TransferQty_LotQty(c) == c.lot.qty

(* cost_per_unit=c.cost: the cost of the whole draw as the unit cost.      *)
TransferCost_Total(c) == ConsumptionCost(c)

(* lot_no not passed on: receive's default, None.                          *)
TransferLotNo_None(c) == NoLotNo

(* expiry_date not passed on: receive's default, None.                     *)
TransferExpiry_None(c) == NoExpiry


(* The keyword arguments of the receive call at lines 158-165.             *)
TransferQty(c) == c.qty
TransferCost(c) == c.lot.cost_per_unit
TransferLotNo(c) == c.lot.lot_no
TransferExpiry(c) == c.lot.expiry_date

(* The for loop of lines 156-165.  A receive that raises ends the loop and *)
(* leaves what the earlier iterations did.                                 *)
RECURSIVE ReceiveEach(_, _, _, _, _, _)
ReceiveEach(m, seq, item_id, to_wh, cs, created) ==
    IF cs = <<>>
    THEN [status |-> "ok", lots |-> m, lot_seq |-> seq, created |-> created]
    ELSE LET c == Head(cs)
             r == ReceiveOn(m, seq, item_id, to_wh, TransferQty(c),
                            TransferCost(c), TransferLotNo(c), TransferExpiry(c))
         IN  IF r.status # "ok"
             THEN [status |-> r.status, lots |-> r.lots, lot_seq |-> r.lot_seq,
                   created |-> created]
             ELSE ReceiveEach(r.lots, r.lot_seq, item_id, to_wh, Tail(cs),
                              created \o r.created)

TransferOn(m, seq, item_id, from_wh, to_wh, qty) ==
    LET i == IssueOn(m, item_id, from_wh, qty)
    IN  IF i.status # "ok"
        THEN [status |-> i.status, lots |-> i.lots, lot_seq |-> seq, cost |-> 0,
              consumed |-> <<>>, created |-> <<>>]
        ELSE LET r == ReceiveEach(i.lots, seq, item_id, to_wh, i.consumed, <<>>)
             IN  [status |-> r.status, lots |-> r.lots, lot_seq |-> r.lot_seq,
                  cost |-> i.cost, consumed |-> i.consumed, created |-> r.created]

---------------------------------------------------------------------------
(* Reporting helpers.                                                      *)

(* The lots the generators of lines 178-182 and 189-193 run over: those of  *)
(* every warehouse of self._lots.get(item_id, {}).                         *)
RECURSIVE LotsOfAll(_, _)
LotsOfAll(b, ws) ==
    IF ws = {} THEN <<>>
    ELSE LET w == CHOOSE x \in ws : TRUE
         IN  b[w] \o LotsOfAll(b, ws \ {w})

ItemLots(m, item_id) == IF item_id \in DOMAIN m THEN m[item_id] ELSE <<>>

(* Inventory.stock_on_hand: the mapping it leaves and the number returned. *)
StockOnHandOn(m, item_id, warehouse_id) ==
    IF warehouse_id = NoWarehouse
    THEN [lots |-> m,
          value |-> SumQty(LotsOfAll(ItemLots(m, item_id), DOMAIN ItemLots(m, item_id)))]
    ELSE LET m1 == SetDefault(m, item_id, warehouse_id)
         IN  [lots |-> m1, value |-> SumQty(m1[item_id][warehouse_id])]

(* Inventory.stock_value.                                                  *)
StockValueOn(m, item_id, warehouse_id) ==
    IF warehouse_id = NoWarehouse
    THEN [lots |-> m,
          value |-> SumValue(LotsOfAll(ItemLots(m, item_id), DOMAIN ItemLots(m, item_id)))]
    ELSE LET m1 == SetDefault(m, item_id, warehouse_id)
         IN  [lots |-> m1, value |-> SumValue(m1[item_id][warehouse_id])]

---------------------------------------------------------------------------
(* The ledger as a state machine: one action per public method.            *)

RECURSIVE IdsOf(_)
IdsOf(ls) == IF ls = <<>> THEN <<>> ELSE <<Head(ls).id>> \o IdsOf(Tail(ls))

CallRec(op, item_id, warehouse_id, to_wh, qty, cost_per_unit, lot_no, expiry_date) ==
    [op |-> op, item_id |-> item_id, warehouse_id |-> warehouse_id,
     to_wh |-> to_wh, qty |-> qty, cost_per_unit |-> cost_per_unit,
     lot_no |-> lot_no, expiry_date |-> expiry_date]

RetRec(status, value, consumed, created) ==
    [status |-> status, value |-> value, consumed |-> consumed,
     created |-> created]

NoCall == CallRec("none", 0, NoWarehouse, NoWarehouse, 0, 0, NoLotNo, NoExpiry)

NoRet == RetRec("none", 0, <<>>, <<>>)

Snapshot == [lots |-> lots, lot_seq |-> lot_seq]

(* Inventory.__init__, lines 60-63.  No call has been made.                *)
Init ==
    /\ lots = <<>>
    /\ lot_seq = 1
    /\ call = NoCall
    /\ ret = NoRet
    /\ pre = [lots |-> <<>>, lot_seq |-> 1]
    /\ assigned = <<>>
    /\ tol = TOL

(* Calls are synchronous: one is made when no other is in progress.        *)
Idle == call.op = "none"

Receive(item_id, warehouse_id, qty, cost_per_unit, lot_no, expiry_date) ==
    LET r == ReceiveOn(lots, lot_seq, item_id, warehouse_id, qty,
                       cost_per_unit, lot_no, expiry_date)
    IN  /\ Idle
        /\ lots' = r.lots
        /\ lot_seq' = r.lot_seq
        /\ call' = CallRec("receive", item_id, warehouse_id, NoWarehouse, qty,
                           cost_per_unit, lot_no, expiry_date)
        /\ ret' = RetRec(r.status, 0, <<>>, r.created)
        /\ pre' = Snapshot
        /\ assigned' = assigned \o IdsOf(r.created)
        /\ tol' = tol

Issue(item_id, warehouse_id, qty) ==
    LET r == IssueOn(lots, item_id, warehouse_id, qty)
    IN  /\ Idle
        /\ lots' = r.lots
        /\ lot_seq' = lot_seq
        /\ call' = CallRec("issue", item_id, warehouse_id, NoWarehouse, qty, 0,
                           NoLotNo, NoExpiry)
        /\ ret' = RetRec(r.status, r.cost, r.consumed, <<>>)
        /\ pre' = Snapshot
        /\ assigned' = assigned
        /\ tol' = tol

(* ret.consumed and ret.created record the consumptions of the issue step  *)
(* and the lots the receive steps created; the method returns the cost.    *)
Transfer(item_id, from_wh, to_wh, qty) ==
    LET r == TransferOn(lots, lot_seq, item_id, from_wh, to_wh, qty)
    IN  /\ Idle
        /\ lots' = r.lots
        /\ lot_seq' = r.lot_seq
        /\ call' = CallRec("transfer", item_id, from_wh, to_wh, qty, 0,
                           NoLotNo, NoExpiry)
        /\ ret' = RetRec(r.status, r.cost, r.consumed, r.created)
        /\ pre' = Snapshot
        /\ assigned' = assigned \o IdsOf(r.created)
        /\ tol' = tol

StockOnHand(item_id, warehouse_id) ==
    LET r == StockOnHandOn(lots, item_id, warehouse_id)
    IN  /\ Idle
        /\ lots' = r.lots
        /\ lot_seq' = lot_seq
        /\ call' = CallRec("stock_on_hand", item_id, warehouse_id, NoWarehouse,
                           0, 0, NoLotNo, NoExpiry)
        /\ ret' = RetRec("ok", r.value, <<>>, <<>>)
        /\ pre' = Snapshot
        /\ assigned' = assigned
        /\ tol' = tol

StockValue(item_id, warehouse_id) ==
    LET r == StockValueOn(lots, item_id, warehouse_id)
    IN  /\ Idle
        /\ lots' = r.lots
        /\ lot_seq' = lot_seq
        /\ call' = CallRec("stock_value", item_id, warehouse_id, NoWarehouse,
                           0, 0, NoLotNo, NoExpiry)
        /\ ret' = RetRec("ok", r.value, <<>>, <<>>)
        /\ pre' = Snapshot
        /\ assigned' = assigned
        /\ tol' = tol

(* The caller takes the result and is ready for its next call; the ledger  *)
(* keeps nothing of the call.                                              *)
Return ==
    /\ ~Idle
    /\ call' = NoCall
    /\ ret' = NoRet
    /\ pre' = Snapshot
    /\ UNCHANGED <<lots, lot_seq, assigned, tol>>

(* The calls made on a ledger with the given items and receive arguments,  *)
(* while the identities a call hands out stay within cap.                  *)
NextOver(items, receipts, cap) ==
    \/ \E i \in items, w \in WarehouseIds, r \in receipts :
          /\ Receive(i, w, r.qty, r.cost_per_unit, r.lot_no, r.expiry_date)
          /\ lot_seq' <= cap + 1
    \/ \E i \in items, w \in WarehouseIds, q \in QtyInputs : Issue(i, w, q)
    \/ \E i \in items, f \in WarehouseIds, t \in WarehouseIds, q \in QtyInputs :
          /\ Transfer(i, f, t, q)
          /\ lot_seq' <= cap + 1
    \/ \E i \in items, w \in WarehouseIds \cup {NoWarehouse} : StockOnHand(i, w)
    \/ \E i \in items, w \in WarehouseIds \cup {NoWarehouse} : StockValue(i, w)
    \/ Return

Next == NextOver(ItemIds, Receipts, MaxLotId)

Spec == Init /\ [][Next]_vars

(* The same ledger with quantities counted in half-tolerance units: a lot  *)
(* of 1 unit is a lot within the tolerance, and two of them lie within it  *)
(* together.                                                               *)
MaxLotIdFine == 3    \* the identities stay <= MaxLotIdFine in SpecFine

ReceiptsFine ==
    { Receipt(1, 2, NoLotNo, "E1"),
      Receipt(6, 3, "L2", NoExpiry),
      Receipt(0, 2, NoLotNo, NoExpiry) }

InitFine ==
    /\ lots = <<>>
    /\ lot_seq = 1
    /\ call = NoCall
    /\ ret = NoRet
    /\ pre = [lots |-> <<>>, lot_seq |-> 1]
    /\ assigned = <<>>
    /\ tol = TOL_FINE

NextFine == NextOver(ItemIds, ReceiptsFine, MaxLotIdFine)

SpecFine == InitFine /\ [][NextFine]_vars

(* The ledger holding two items.                                           *)
MaxLotIdItems == 3   \* the identities stay <= MaxLotIdItems in SpecItems

TwoItemIds == {1, 2}

ReceiptsItems ==
    { Receipt(3, 3, "L2", NoExpiry),
      Receipt(-1, 3, "L1", "E1") }

NextItems == NextOver(TwoItemIds, ReceiptsItems, MaxLotIdItems)

SpecItems == Init /\ [][NextItems]_vars

---------------------------------------------------------------------------
(* Vocabulary of the properties.  In a state where a call has returned,    *)
(* pre is the ledger the call was made on and lots, lot_seq the ledger it  *)
(* left.                                                                   *)

Keys(m) == UNION {{<<i, w>> : w \in DOMAIN m[i]} : i \in DOMAIN m}

Bucket(i, w) == BucketOf(lots, i, w)
PreBucket(i, w) == BucketOf(pre.lots, i, w)

OnHand(i, w) == SumQty(Bucket(i, w))
PreOnHand(i, w) == SumQty(PreBucket(i, w))
Value(i, w) == SumValue(Bucket(i, w))
PreValue(i, w) == SumValue(PreBucket(i, w))

(* Every bucket holds the lots it held, with the quantities they had.      *)
LotsUntouched ==
    \A k \in Keys(lots) \cup Keys(pre.lots) :
        Bucket(k[1], k[2]) = PreBucket(k[1], k[2])

(* The ledger is exactly as it was: keys, sequences, lots and counter.     *)
StateUntouched == lots = pre.lots /\ lot_seq = pre.lot_seq

Succeeded(op) == call.op = op /\ ret.status = "ok"

Within(x, lo, hi) == lo <= x /\ x <= hi

---------------------------------------------------------------------------
(* C1 as stated: an issue of more than the bucket's total quantity fails   *)
(* with NegativeStockError and leaves every lot's quantity as it was.      *)
C1_AsStated ==
    (call.op = "issue" /\ call.qty > PreOnHand(call.item_id, call.warehouse_id))
        => (ret.status = "NegativeStockError" /\ LotsUntouched)

(* C1: an issue of more than the bucket's total quantity plus the          *)
(* tolerance fails with NegativeStockError, and afterwards every bucket    *)
(* holds the lots it held with the quantities they had, so the on-hand     *)
(* quantity of the bucket is unchanged.                                    *)
C1_NegativeStockRejected ==
    (call.op = "issue"
        /\ call.qty > PreOnHand(call.item_id, call.warehouse_id) + tol)
        => /\ ret.status = "NegativeStockError"
           /\ LotsUntouched
           /\ OnHand(call.item_id, call.warehouse_id)
                 = PreOnHand(call.item_id, call.warehouse_id)

(* An issue of more than a stocked bucket holds has been rejected.         *)
C1_Witness ==
    /\ call.op = "issue"
    /\ PreBucket(call.item_id, call.warehouse_id) # <<>>
    /\ call.qty > PreOnHand(call.item_id, call.warehouse_id) + tol
    /\ ret.status = "NegativeStockError"

---------------------------------------------------------------------------
(* C2: the consumptions of a successful issue draw from the bucket's lots  *)
(* in receipt order, oldest first.  The lots consumed are a prefix of the  *)
(* bucket's sequence as it was, in the same order; every one but the last  *)
(* is drawn for the whole quantity it had; the last for no more than it    *)
(* had; and the bucket is left with the rest of its sequence, headed by    *)
(* what remains of the last lot drawn when that lot stays.                 *)
C2_FifoOrder ==
    Succeeded("issue") =>
        LET pb == PreBucket(call.item_id, call.warehouse_id)
            b  == Bucket(call.item_id, call.warehouse_id)
            cs == ret.consumed
            n  == Len(cs)
        IN  /\ n <= Len(pb)
            /\ \A k \in 1 .. n :
                  /\ cs[k].lot.id = pb[k].id
                  /\ cs[k].qty <= pb[k].qty
                  /\ cs[k].qty > 0
                  /\ k < n => cs[k].qty = pb[k].qty
                  /\ cs[k].lot.qty = pb[k].qty - cs[k].qty
            /\ \A k \in 1 .. n, j \in 1 .. Len(b) :
                  b[j].id = pb[k].id => (k = n /\ j = 1)
            /\ \/ b = SubSeq(pb, n + 1, Len(pb))
               \/ /\ n >= 1
                  /\ b = <<cs[n].lot>> \o SubSeq(pb, n + 1, Len(pb))

(* An issue has drawn an older lot whole and part of the next one, which   *)
(* stays in a bucket of three lots.                                        *)
C2_Witness ==
    /\ Succeeded("issue")
    /\ Len(PreBucket(call.item_id, call.warehouse_id)) = 3
    /\ Len(ret.consumed) = 2
    /\ ret.consumed[2].lot.qty > 0
    /\ Len(Bucket(call.item_id, call.warehouse_id)) = 2
    /\ ret.consumed[1].lot.cost_per_unit # ret.consumed[2].lot.cost_per_unit

---------------------------------------------------------------------------
(* What is left, when it is within the tolerance, in the last lot a call   *)
(* drew from: line 127 removes the lot with that remainder in it.          *)
LastDrawn == ret.consumed[Len(ret.consumed)]

DiscardedRemainder ==
    IF ret.consumed # <<>> /\ LastDrawn.lot.qty <= tol
    THEN LastDrawn.lot.qty ELSE 0

DiscardedValue ==
    IF ret.consumed # <<>> THEN DiscardedRemainder * LastDrawn.lot.cost_per_unit
    ELSE 0

ItemOnHand(m, i) == StockOnHandOn(m, i, NoWarehouse).value

(* C3 as stated: for a successful transfer between two different           *)
(* warehouses, the decrease of the source's stock value equals the         *)
(* increase of the destination's, and the cost returned equals both.       *)
C3_AsStated ==
    (Succeeded("transfer") /\ call.warehouse_id # call.to_wh) =>
        LET dec == PreValue(call.item_id, call.warehouse_id)
                      - Value(call.item_id, call.warehouse_id)
            inc == Value(call.item_id, call.to_wh)
                      - PreValue(call.item_id, call.to_wh)
        IN  dec = inc /\ ret.value = inc

(* C3: for a successful transfer between two different warehouses, the     *)
(* cost returned equals the increase of the destination's stock value;     *)
(* the decrease of the source's stock value equals it too, except that a   *)
(* remainder of at most the tolerance left in the last lot drawn is        *)
(* removed with the lot, and the decrease then exceeds the cost returned   *)
(* by that remainder times the lot's unit cost.                            *)
C3_TransferCostConserved ==
    (Succeeded("transfer") /\ call.warehouse_id # call.to_wh) =>
        LET dec == PreValue(call.item_id, call.warehouse_id)
                      - Value(call.item_id, call.warehouse_id)
            inc == Value(call.item_id, call.to_wh)
                      - PreValue(call.item_id, call.to_wh)
        IN  /\ ret.value = inc
            /\ ret.value = SumCost(ret.consumed)
            /\ dec = ret.value + DiscardedValue
            /\ Within(DiscardedRemainder, 0, tol)

(* A transfer has drawn two lots of different unit costs into another      *)
(* warehouse, and the second lot was removed with a remainder in it.       *)
C3_Witness ==
    /\ Succeeded("transfer")
    /\ call.warehouse_id # call.to_wh
    /\ Len(ret.consumed) = 2
    /\ ret.consumed[1].lot.cost_per_unit # ret.consumed[2].lot.cost_per_unit
    /\ ret.value > 0
    /\ DiscardedRemainder > 0

---------------------------------------------------------------------------
(* C4 as stated: a transfer either fails and leaves the on-hand quantity   *)
(* of source and destination as they were, or completes with the source    *)
(* lower by qty and the destination higher by qty; and the item's on-hand  *)
(* quantity over all warehouses is the same before and after.              *)
C4_AsStated ==
    call.op = "transfer" =>
        /\ \/ /\ ret.status # "ok"
              /\ LotsUntouched
           \/ /\ ret.status = "ok"
              /\ OnHand(call.item_id, call.warehouse_id)
                    = PreOnHand(call.item_id, call.warehouse_id) - call.qty
              /\ OnHand(call.item_id, call.to_wh)
                    = PreOnHand(call.item_id, call.to_wh) + call.qty
        /\ ItemOnHand(lots, call.item_id) = ItemOnHand(pre.lots, call.item_id)

(* C4: a transfer either fails, with ValueError exactly when qty <= 0 and  *)
(* with NegativeStockError otherwise, and then no lot of any bucket has    *)
(* changed and no identity was handed out; or it completes, every          *)
(* consumption of its issue step received at the destination (the receive  *)
(* step never fails after the issue step succeeded).  When it completes    *)
(* between two different warehouses the source's on-hand quantity is lower *)
(* and the destination's higher by qty, each to within the tolerance; when *)
(* source and destination are the same bucket its on-hand quantity is as   *)
(* before to within the tolerance; and the item's on-hand quantity over    *)
(* all warehouses is as before to within the tolerance (it can only be     *)
(* lower).                                                                 *)
C4_TransferAtomic ==
    call.op = "transfer" =>
        LET i == call.item_id
            f == call.warehouse_id
            t == call.to_wh
        IN  \/ /\ ret.status \in {"ValueError", "NegativeStockError"}
               /\ (ret.status = "ValueError") <=> (call.qty <= 0)
               /\ LotsUntouched
               /\ lot_seq = pre.lot_seq
               /\ ret.created = <<>>
            \/ /\ ret.status = "ok"
               /\ Len(ret.created) = Len(ret.consumed)
               /\ f # t =>
                     /\ Within(PreOnHand(i, f) - OnHand(i, f),
                               call.qty - tol, call.qty + tol)
                     /\ Within(OnHand(i, t) - PreOnHand(i, t),
                               call.qty - tol, call.qty)
               /\ f = t => Within(PreOnHand(i, f) - OnHand(i, f), 0, tol)
               /\ Within(ItemOnHand(pre.lots, i) - ItemOnHand(lots, i), 0, tol)

(* A transfer between two warehouses has drawn one lot whole and part of   *)
(* the next, and both draws have arrived.                                  *)
C4_Witness ==
    /\ Succeeded("transfer")
    /\ call.warehouse_id # call.to_wh
    /\ Len(ret.consumed) = 2
    /\ Len(ret.created) = 2
    /\ Bucket(call.item_id, call.warehouse_id) # <<>>
    /\ OnHand(call.item_id, call.to_wh)
          = PreOnHand(call.item_id, call.to_wh) + call.qty

---------------------------------------------------------------------------
(* C5: every lot stored in the ledger has a quantity greater than zero, so *)
(* the on-hand quantity of every bucket is at least zero.                  *)
C5_StockNeverNegative ==
    \A i \in DOMAIN lots : \A w \in DOMAIN lots[i] :
        /\ \A k \in 1 .. Len(lots[i][w]) : lots[i][w][k].qty > 0
        /\ StockOnHandOn(lots, i, w).value >= 0

(* An issue has drawn part of a lot and the lot is still stored, after an  *)
(* earlier lot of the bucket was drawn whole and removed.                  *)
C5_Witness ==
    /\ Succeeded("issue")
    /\ Len(ret.consumed) = 2
    /\ Bucket(call.item_id, call.warehouse_id) # <<>>
    /\ Bucket(call.item_id, call.warehouse_id)[1].id = ret.consumed[2].lot.id
    /\ Bucket(call.item_id, call.warehouse_id)[1].qty
          < PreBucket(call.item_id, call.warehouse_id)[2].qty

---------------------------------------------------------------------------
(* C6: receive, issue and transfer called with qty <= 0 raise ValueError   *)
(* and leave the lot mapping (its keys, every sequence, every lot) and the *)
(* identity counter exactly as they were.                                  *)
C6_NonPositiveQtyRejected ==
    (call.op \in {"receive", "issue", "transfer"} /\ call.qty <= 0) =>
        /\ ret.status = "ValueError"
        /\ StateUntouched
        /\ ret.created = <<>>
        /\ ret.consumed = <<>>

(* A transfer of quantity zero out of a stocked bucket into a bucket that  *)
(* does not exist yet has been rejected.                                   *)
C6_Witness ==
    /\ call.op = "transfer"
    /\ call.qty = 0
    /\ ret.status = "ValueError"
    /\ PreBucket(call.item_id, call.warehouse_id) # <<>>
    /\ <<call.item_id, call.to_wh>> \notin Keys(pre.lots)

---------------------------------------------------------------------------
(* C7 as stated: the consumptions of a successful issue sum to qty, and    *)
(* the bucket's on-hand quantity afterwards is its value before minus qty. *)
C7_AsStated ==
    Succeeded("issue") =>
        /\ SumTaken(ret.consumed) = call.qty
        /\ OnHand(call.item_id, call.warehouse_id)
              = PreOnHand(call.item_id, call.warehouse_id) - call.qty

(* C7: the consumptions of a successful issue sum to qty to within the     *)
(* tolerance (never to more than qty), and the bucket's on-hand quantity   *)
(* afterwards is its value before minus qty to within the tolerance: it is *)
(* lower by the sum of the consumptions plus the remainder, at most the    *)
(* tolerance, removed with the last lot drawn.                             *)
C7_IssueQuantity ==
    Succeeded("issue") =>
        LET drawn == SumTaken(ret.consumed)
            less  == PreOnHand(call.item_id, call.warehouse_id)
                        - OnHand(call.item_id, call.warehouse_id)
        IN  /\ Within(drawn, call.qty - tol, call.qty)
            /\ less = drawn + DiscardedRemainder
            /\ Within(less, call.qty - tol, call.qty + tol)

(* An issue has drawn exactly qty from two lots.                           *)
C7_Witness ==
    /\ Succeeded("issue")
    /\ Len(ret.consumed) = 2
    /\ SumTaken(ret.consumed) = call.qty
    /\ OnHand(call.item_id, call.warehouse_id)
          = PreOnHand(call.item_id, call.warehouse_id) - call.qty
    /\ OnHand(call.item_id, call.warehouse_id) > 0

---------------------------------------------------------------------------
(* The lots the reporting helper with these arguments sums over.           *)
LotsInScope(m, i, w) ==
    IF w = NoWarehouse THEN LotsOfAll(ItemLots(m, i), DOMAIN ItemLots(m, i))
    ELSE BucketOf(m, i, w)

(* C8: stock_on_hand and stock_value leave the ledger exactly as it was,   *)
(* the item and warehouse keys of the lot mapping and the identity counter *)
(* included, and return 0 when there are no lots to sum over.              *)
C8_QueriesCreateNoState ==
    call.op \in {"stock_on_hand", "stock_value"} =>
        /\ StateUntouched
        /\ LotsInScope(pre.lots, call.item_id, call.warehouse_id) = <<>>
              => ret.value = 0

(* What does hold of the two helpers: they change no lot and no counter.   *)
C8_QueriesKeepLots ==
    call.op \in {"stock_on_hand", "stock_value"} =>
        /\ LotsUntouched
        /\ lot_seq = pre.lot_seq
        /\ ret.status = "ok"
        /\ LotsInScope(pre.lots, call.item_id, call.warehouse_id) = <<>>
              => ret.value = 0

---------------------------------------------------------------------------
(* The identities of the lots stored in a lot mapping.                     *)
LotIds(m) ==
    UNION { {BucketOf(m, k[1], k[2])[n].id : n \in 1 .. Len(BucketOf(m, k[1], k[2]))}
            : k \in Keys(m) }

StoredLots(m) ==
    UNION { {BucketOf(m, k[1], k[2])[n] : n \in 1 .. Len(BucketOf(m, k[1], k[2]))}
            : k \in Keys(m) }

(* C9: lot identities are unique and increasing over the ledger's life.    *)
(* The first identity handed out is 1; each later one is greater than      *)
(* every one handed out before it, so none is handed out twice, also not   *)
(* after its lot was removed; the counter is greater than all of them and  *)
(* never lower after a call than before it; and the lots stored carry      *)
(* identities that were handed out, no two lots the same one.              *)
C9_LotIdsUniqueIncreasing ==
    /\ assigned # <<>> => assigned[1] = 1
    /\ \A j \in 1 .. Len(assigned), k \in 1 .. Len(assigned) :
          j < k => assigned[j] < assigned[k]
    /\ \A k \in 1 .. Len(assigned) : assigned[k] < lot_seq
    /\ lot_seq >= pre.lot_seq
    /\ \A k \in 1 .. Len(ret.created) :
          /\ ret.created[k].id >= pre.lot_seq
          /\ ret.created[k].id
                = assigned[Len(assigned) - Len(ret.created) + k]
    /\ \A a \in StoredLots(lots) :
          /\ \E k \in 1 .. Len(assigned) : assigned[k] = a.id
          /\ \A b \in StoredLots(lots) : a.id = b.id => a = b

(* A receive has created a lot after an earlier lot was consumed and       *)
(* removed, and a transfer had created lots in between.                    *)
C9_Witness ==
    /\ Succeeded("receive")
    /\ Len(assigned) >= 3
    /\ \E k \in 1 .. Len(assigned) : assigned[k] \notin LotIds(lots)
    /\ ret.created[1].id = assigned[Len(assigned)]
    /\ ret.created[1].id \in LotIds(lots)

---------------------------------------------------------------------------
(* C10: after a successful transfer between two different warehouses the   *)
(* destination bucket is its previous sequence followed by one new lot per *)
(* consumption of the issue step, in draw order; each new lot has the      *)
(* consumption's quantity, the unit cost, lot number and expiry date of    *)
(* the source lot drawn from, the item and the destination warehouse, and  *)
(* a fresh identity greater than every one that existed before.            *)
C10_TransferRecreatesLots ==
    (Succeeded("transfer") /\ call.warehouse_id # call.to_wh) =>
        LET i  == call.item_id
            ps == PreBucket(i, call.warehouse_id)
            pd == PreBucket(i, call.to_wh)
            d  == Bucket(i, call.to_wh)
            cs == ret.consumed
            n  == Len(cs)
            before == SubSeq(assigned, 1, Len(assigned) - n)
        IN  /\ Len(d) = Len(pd) + n
            /\ SubSeq(d, 1, Len(pd)) = pd
            /\ n <= Len(ps)
            /\ \A k \in 1 .. n :
                  LET new == d[Len(pd) + k]
                  IN  /\ cs[k].lot.id = ps[k].id
                      /\ new.qty = cs[k].qty
                      /\ new.cost_per_unit = ps[k].cost_per_unit
                      /\ new.lot_no = ps[k].lot_no
                      /\ new.expiry_date = ps[k].expiry_date
                      /\ new.item_id = i
                      /\ new.warehouse_id = call.to_wh
                      /\ new.id >= pre.lot_seq
                      /\ \A x \in LotIds(pre.lots) : new.id > x
                      /\ \A x \in 1 .. Len(before) : new.id > before[x]
                      /\ k > 1 => new.id > d[Len(pd) + k - 1].id

(* A transfer has drawn two lots with different lot numbers and expiry     *)
(* dates and recreated both at the destination.                            *)
C10_Witness ==
    /\ Succeeded("transfer")
    /\ call.warehouse_id # call.to_wh
    /\ Len(ret.consumed) = 2
    /\ Len(Bucket(call.item_id, call.to_wh)) = 2
    /\ ret.consumed[1].lot.lot_no # ret.consumed[2].lot.lot_no
    /\ ret.consumed[1].lot.expiry_date # ret.consumed[2].lot.expiry_date
    /\ ret.consumed[2].qty < PreBucket(call.item_id, call.warehouse_id)[2].qty

(* A transfer has appended a lot to a destination that already held one.   *)
C10_WitnessStockedDestination ==
    /\ Succeeded("transfer")
    /\ call.warehouse_id # call.to_wh
    /\ ret.consumed # <<>>
    /\ PreBucket(call.item_id, call.to_wh) # <<>>

---------------------------------------------------------------------------
(* The identities handed out before the last call that the ledger no       *)
(* longer held when that call was made: the lots removed before it.        *)
RemovedBefore ==
    {assigned[k] : k \in 1 .. Len(assigned)}
        \cap {x \in 1 .. pre.lot_seq - 1 : x \notin LotIds(pre.lots)}

ConsumedIds == {ret.consumed[k].lot.id : k \in 1 .. Len(ret.consumed)}

(* C11 as stated: a lot whose quantity an issue or transfer has fully       *)
(* consumed is no longer in the ledger after the call; a lot that was      *)
(* removed before a call is not in the ledger after it and is drawn by     *)
(* none of the call's consumptions; stock_on_hand and stock_value return   *)
(* the sum over the lots the ledger holds; and an issue of exactly the     *)
(* front lot's quantity removes that lot, so that the issue following it   *)
(* draws from the next lot.                                                *)
C11_AsStated ==
    LET i  == call.item_id
        w  == call.warehouse_id
        pb == PreBucket(i, w)
        cs == ret.consumed
    IN  /\ \A k \in 1 .. Len(cs) :
              cs[k].lot.qty = 0 => cs[k].lot.id \notin LotIds(lots)
        /\ \A x \in RemovedBefore :
              x \notin LotIds(lots) /\ x \notin ConsumedIds
        /\ call.op = "stock_on_hand"
              => ret.value = SumQty(LotsInScope(lots, i, w))
        /\ call.op = "stock_value"
              => ret.value = SumValue(LotsInScope(lots, i, w))
        /\ (Succeeded("issue") /\ cs # <<>>) => cs[1].lot.id = pb[1].id
        /\ (Succeeded("issue") /\ pb # <<>> /\ call.qty = pb[1].qty)
              => /\ Len(cs) = 1
                 /\ cs[1].lot.qty = 0
                 /\ Bucket(i, w) = Tail(pb)

(* C11: a lot whose quantity an issue or transfer has fully consumed is no *)
(* longer in the ledger after the call; a lot that was removed before a    *)
(* call is not in the ledger after it and is drawn by none of the call's   *)
(* consumptions; stock_on_hand and stock_value return the sum over the     *)
(* lots the ledger holds, so a removed lot adds nothing to them; a         *)
(* successful issue that draws anything draws first from the lot at the    *)
(* front of the bucket; an issue of exactly the front lot's quantity, when *)
(* that quantity is above the tolerance, removes the lot and leaves the    *)
(* lot that was second at the front; and an issue of a quantity within the *)
(* tolerance succeeds, draws nothing and leaves every lot where it was.    *)
C11_LotExhaustion ==
    LET i  == call.item_id
        w  == call.warehouse_id
        pb == PreBucket(i, w)
        cs == ret.consumed
    IN  /\ \A k \in 1 .. Len(cs) :
              cs[k].lot.qty = 0 => cs[k].lot.id \notin LotIds(lots)
        /\ \A x \in RemovedBefore :
              x \notin LotIds(lots) /\ x \notin ConsumedIds
        /\ call.op = "stock_on_hand"
              => ret.value = SumQty(LotsInScope(lots, i, w))
        /\ call.op = "stock_value"
              => ret.value = SumValue(LotsInScope(lots, i, w))
        /\ (Succeeded("issue") /\ cs # <<>>) => cs[1].lot.id = pb[1].id
        /\ (Succeeded("issue") /\ pb # <<>> /\ call.qty = pb[1].qty
                /\ call.qty > tol)
              => /\ Len(cs) = 1
                 /\ cs[1].lot.qty = 0
                 /\ Bucket(i, w) = Tail(pb)
        /\ (call.op = "issue" /\ Within(call.qty, 1, tol))
              => /\ ret.status = "ok"
                 /\ cs = <<>>
                 /\ LotsUntouched

(* An issue of exactly the front lot's quantity has removed that lot from  *)
(* a bucket whose earlier front lot had been removed before, and left the  *)
(* next lot at the front.                                                  *)
C11_Witness ==
    /\ Succeeded("issue")
    /\ RemovedBefore # {}
    /\ Len(PreBucket(call.item_id, call.warehouse_id)) >= 2
    /\ call.qty = PreBucket(call.item_id, call.warehouse_id)[1].qty
    /\ Bucket(call.item_id, call.warehouse_id) # <<>>
    /\ Bucket(call.item_id, call.warehouse_id)[1].id
          = PreBucket(call.item_id, call.warehouse_id)[2].id

---------------------------------------------------------------------------
(* C12 as stated: an issue of more than the bucket's total quantity by at  *)
(* most the tolerance succeeds and leaves the bucket with no lots and an   *)
(* on-hand quantity of 0; an issue of more than the total by more than the *)
(* tolerance fails with NegativeStockError.                                *)
C12_AsStated ==
    call.op = "issue" =>
        LET i == call.item_id
            w == call.warehouse_id
            over == call.qty - PreOnHand(i, w)
        IN  /\ Within(over, 1, tol)
                  => /\ ret.status = "ok"
                     /\ Bucket(i, w) = <<>>
                     /\ OnHand(i, w) = 0
            /\ over > tol => ret.status = "NegativeStockError"

(* C12: an issue of more than the bucket's total quantity by at most the   *)
(* tolerance succeeds.  It leaves the tail of the bucket's sequence that   *)
(* the loop did not reach, whose on-hand quantity is at most the tolerance *)
(* minus the excess, so below the tolerance; the bucket is left with no    *)
(* lots when none of its lots was of a quantity below the tolerance.  An   *)
(* issue of more than the total by more than the tolerance fails with      *)
(* NegativeStockError.                                                     *)
C12_ToleranceBoundary ==
    call.op = "issue" =>
        LET i == call.item_id
            w == call.warehouse_id
            pb == PreBucket(i, w)
            b == Bucket(i, w)
            over == call.qty - PreOnHand(i, w)
        IN  /\ Within(over, 1, tol)
                  => /\ ret.status = "ok"
                     /\ Within(OnHand(i, w), 0, tol - over)
                     /\ Len(b) <= Len(pb)
                     /\ b = SubSeq(pb, Len(pb) - Len(b) + 1, Len(pb))
                     /\ (\A k \in 1 .. Len(pb) : pb[k].qty >= tol) => b = <<>>
            /\ over > tol => ret.status = "NegativeStockError"

(* An issue of more than a bucket of two lots holds, by no more than the   *)
(* tolerance, has succeeded and emptied the bucket.                        *)
C12_Witness ==
    /\ Succeeded("issue")
    /\ Len(PreBucket(call.item_id, call.warehouse_id)) >= 2
    /\ Within(call.qty - PreOnHand(call.item_id, call.warehouse_id), 1, tol)
    /\ Bucket(call.item_id, call.warehouse_id) = <<>>

(* An issue of more than a bucket holds, by less than the tolerance, has   *)
(* succeeded and left a lot in the bucket.                                 *)
C12_WitnessLotLeft ==
    /\ Succeeded("issue")
    /\ Within(call.qty - PreOnHand(call.item_id, call.warehouse_id), 1, tol)
    /\ ret.consumed # <<>>
    /\ Bucket(call.item_id, call.warehouse_id) # <<>>

---------------------------------------------------------------------------
(* What a bucket's sequence shows apart from the identities of its lots.   *)
RECURSIVE Content(_)
Content(ls) ==
    IF ls = <<>> THEN <<>>
    ELSE <<[qty |-> Head(ls).qty, cost_per_unit |-> Head(ls).cost_per_unit,
            lot_no |-> Head(ls).lot_no, expiry_date |-> Head(ls).expiry_date]>>
         \o Content(Tail(ls))

(* C13 as stated: after a successful transfer from a warehouse to itself   *)
(* the bucket holds the same sequence of (quantity, unit cost, lot number, *)
(* expiry date) as before, so the same on-hand quantity and stock value.   *)
C13_AsStated ==
    (Succeeded("transfer") /\ call.warehouse_id = call.to_wh) =>
        LET i == call.item_id
            w == call.warehouse_id
        IN  /\ Content(Bucket(i, w)) = Content(PreBucket(i, w))
            /\ OnHand(i, w) = PreOnHand(i, w)
            /\ Value(i, w) = PreValue(i, w)

(* C13: after a successful transfer from a warehouse to itself the bucket  *)
(* holds first what the issue step left (the lots not drawn, headed by     *)
(* what remains of the last lot drawn when that is above the tolerance)    *)
(* and behind it one new lot per consumption, in draw order, with the      *)
(* quantity drawn, the unit cost, lot number and expiry date of the lot    *)
(* drawn from and a fresh identity: the stock drawn moves to the back of   *)
(* the FIFO order.  On-hand quantity and stock value are lower by the      *)
(* remainder, at most the tolerance, removed with the last lot drawn and   *)
(* by its value; the bucket is unchanged when nothing is drawn.            *)
C13_SameWarehouseTransfer ==
    (Succeeded("transfer") /\ call.warehouse_id = call.to_wh) =>
        LET i    == call.item_id
            w    == call.warehouse_id
            pb   == PreBucket(i, w)
            b    == Bucket(i, w)
            cs   == ret.consumed
            n    == Len(cs)
            tail == SubSeq(pb, n + 1, Len(pb))
            rest == IF n >= 1 /\ cs[n].lot.qty > tol
                    THEN <<cs[n].lot>> \o tail ELSE tail
        IN  /\ n <= Len(pb)
            /\ Len(b) = Len(rest) + n
            /\ SubSeq(b, 1, Len(rest)) = rest
            /\ \A k \in 1 .. n :
                  LET new == b[Len(rest) + k]
                  IN  /\ new.qty = cs[k].qty
                      /\ cs[k].lot.id = pb[k].id
                      /\ new.cost_per_unit = pb[k].cost_per_unit
                      /\ new.lot_no = pb[k].lot_no
                      /\ new.expiry_date = pb[k].expiry_date
                      /\ new.id >= pre.lot_seq
            /\ OnHand(i, w) = PreOnHand(i, w) - DiscardedRemainder
            /\ Value(i, w) = PreValue(i, w) - DiscardedValue
            /\ Within(DiscardedRemainder, 0, tol)
            /\ n = 0 => b = pb

(* A transfer from a warehouse to itself has drawn the older of two lots   *)
(* with different unit costs and put it back behind the newer one.         *)
C13_Witness ==
    /\ Succeeded("transfer")
    /\ call.warehouse_id = call.to_wh
    /\ Len(PreBucket(call.item_id, call.warehouse_id)) = 2
    /\ Len(ret.consumed) = 1
    /\ Len(Bucket(call.item_id, call.warehouse_id)) = 2
    /\ Bucket(call.item_id, call.warehouse_id)[1].id
          = PreBucket(call.item_id, call.warehouse_id)[2].id
    /\ Bucket(call.item_id, call.warehouse_id)[2].cost_per_unit
          = PreBucket(call.item_id, call.warehouse_id)[1].cost_per_unit
    /\ Bucket(call.item_id, call.warehouse_id)[1].cost_per_unit
          # Bucket(call.item_id, call.warehouse_id)[2].cost_per_unit

---------------------------------------------------------------------------
(* C14: after an issue or transfer that fails with NegativeStockError the  *)
(* whole ledger is as it was before the call: the item and warehouse keys  *)
(* of the lot mapping, every bucket's sequence, every lot's fields and the *)
(* identity counter.                                                       *)
C14_FailureWithoutSideEffects ==
    (call.op \in {"issue", "transfer"} /\ ret.status = "NegativeStockError")
        => StateUntouched

(* What does hold after such a failure: no lot and no counter has changed, *)
(* nothing was consumed or created, and the only keys the mapping can have *)
(* gained are those of the bucket the call tried to draw from.             *)
C14_FailureKeepsLots ==
    (call.op \in {"issue", "transfer"} /\ ret.status = "NegativeStockError")
        => /\ LotsUntouched
           /\ lot_seq = pre.lot_seq
           /\ ret.consumed = <<>> /\ ret.created = <<>>
           /\ Keys(lots)
                 = Keys(pre.lots) \cup {<<call.item_id, call.warehouse_id>>}
           /\ DOMAIN lots = DOMAIN pre.lots \cup {call.item_id}

---------------------------------------------------------------------------
(* C15: every bucket's sequence is in receipt order, oldest first: the     *)
(* identities of its lots strictly increase from the front to the back,    *)
(* and every lot in it carries the bucket's item and warehouse.            *)
C15_BucketsInReceiptOrder ==
    \A key \in Keys(lots) :
        LET b == Bucket(key[1], key[2])
        IN  \A j \in 1 .. Len(b) :
                /\ b[j].item_id = key[1]
                /\ b[j].warehouse_id = key[2]
                /\ j < Len(b) => b[j].id < b[j + 1].id

(* A transfer from a warehouse to itself has drawn part of the front lot,  *)
(* which stays at the front, and appended the part drawn behind another    *)
(* lot of the bucket.                                                      *)
C15_Witness ==
    /\ Succeeded("transfer")
    /\ call.warehouse_id = call.to_wh
    /\ Len(PreBucket(call.item_id, call.warehouse_id)) = 2
    /\ Len(Bucket(call.item_id, call.warehouse_id)) = 3
    /\ Bucket(call.item_id, call.warehouse_id)[1].id
          = PreBucket(call.item_id, call.warehouse_id)[1].id
    /\ Bucket(call.item_id, call.warehouse_id)[1].qty
          < PreBucket(call.item_id, call.warehouse_id)[1].qty

---------------------------------------------------------------------------
(* C16 as stated: no lot stored in the ledger has a quantity at or below   *)
(* the tolerance, and a lot drawn for the whole quantity it had is         *)
(* removed.                                                                *)
C16_AsStated ==
    /\ \A a \in StoredLots(lots) : a.qty > tol
    /\ \A k \in 1 .. Len(ret.consumed) :
          ret.consumed[k].lot.qty = 0
              => ret.consumed[k].lot.id \notin LotIds(lots)

(* C16: consumption leaves no lot at or below the tolerance: a lot an      *)
(* issue or transfer has drawn from is removed when what is left of it is  *)
(* at or below the tolerance (so also when it was drawn for the whole      *)
(* quantity it had) and stays, with what is left, otherwise.  A lot stored *)
(* with a quantity at or below the tolerance was stored with that quantity *)
(* before the call, or was created by the call with it: by a receive of    *)
(* that quantity, or by a transfer that drew whole a lot of that quantity. *)
(* Every lot stored has a positive quantity.                               *)
C16_NoSliverFromConsumption ==
    LET cs == ret.consumed
        ps == PreBucket(call.item_id, call.warehouse_id)
    IN  /\ \A k \in 1 .. Len(cs) :
              /\ cs[k].lot.qty <= tol => cs[k].lot.id \notin LotIds(lots)
              /\ cs[k].lot.qty > tol => cs[k].lot \in StoredLots(lots)
              /\ cs[k].qty = ps[k].qty => cs[k].lot.id \notin LotIds(lots)
        /\ \A a \in StoredLots(lots) :
              /\ a.qty > 0
              /\ a.qty <= tol =>
                    \/ a \in StoredLots(pre.lots)
                    \/ \E k \in 1 .. Len(ret.created) :
                          /\ ret.created[k] = a
                          /\ \/ call.op = "receive" /\ call.qty = a.qty
                             \/ /\ call.op = "transfer"
                                /\ ps[k].qty = a.qty
                                /\ cs[k].qty = a.qty

(* An issue has drawn a lot down to a remainder within the tolerance, and  *)
(* the lot was removed with the remainder in it.                           *)
C16_Witness ==
    /\ Succeeded("issue")
    /\ DiscardedRemainder > 0
    /\ LastDrawn.lot.id \notin LotIds(lots)
    /\ LastDrawn.lot.id \in LotIds(pre.lots)

(* A transfer has recreated at the destination a lot of a quantity within  *)
(* the tolerance.                                                          *)
C16_WitnessSliverMoved ==
    /\ Succeeded("transfer")
    /\ \E k \in 1 .. Len(ret.created) :
          ret.created[k].qty <= tol /\ ret.created[k] \in StoredLots(lots)

---------------------------------------------------------------------------
(* C17: the life of a lot.  A lot the ledger holds after a call either was *)
(* held before it, with the same unit cost, lot number, expiry date, item  *)
(* and warehouse and with no smaller a quantity, or was created by the     *)
(* call, a successful receive or transfer, with an identity not handed out *)
(* before.  Its quantity is lower than before only after a successful      *)
(* issue or transfer on its own bucket that drew from it.  A lot held      *)
(* before the call and not after it was drawn from by the call; and a lot  *)
(* removed earlier is not held again.                                      *)
C17_LotLifecycle ==
    /\ \A a \in StoredLots(lots) :
          \/ \E p \in StoredLots(pre.lots) :
                /\ p.id = a.id
                /\ [p EXCEPT !.qty = a.qty] = a
                /\ a.qty <= p.qty
                /\ a.qty < p.qty =>
                      /\ Succeeded("issue") \/ Succeeded("transfer")
                      /\ a.item_id = call.item_id
                      /\ a.warehouse_id = call.warehouse_id
                      /\ a.id \in ConsumedIds
          \/ /\ a.id >= pre.lot_seq
             /\ a.id \notin LotIds(pre.lots)
             /\ Succeeded("receive") \/ Succeeded("transfer")
             /\ \E k \in 1 .. Len(ret.created) : ret.created[k] = a
    /\ \A x \in LotIds(pre.lots) \ LotIds(lots) :
          /\ Succeeded("issue") \/ Succeeded("transfer")
          /\ x \in ConsumedIds
    /\ \A x \in RemovedBefore : x \notin LotIds(lots)
    /\ \A k \in 1 .. Len(ret.created) : ret.created[k].id \notin RemovedBefore

(* An issue has removed one lot and lowered the quantity of the next,      *)
(* which stays.                                                            *)
C17_Witness ==
    /\ Succeeded("issue")
    /\ LotIds(pre.lots) \ LotIds(lots) # {}
    /\ \E a \in StoredLots(lots), p \in StoredLots(pre.lots) :
          a.id = p.id /\ a.qty < p.qty

(* A transfer has created a lot after an earlier lot was removed.          *)
C17_WitnessCreated ==
    /\ Succeeded("transfer")
    /\ RemovedBefore # {}
    /\ ret.created # <<>>
    /\ ret.created[1] \in StoredLots(lots)

---------------------------------------------------------------------------
(* The lot mapping without the keys that hold no lot: two mappings with    *)
(* the same Stocked hold the same lots in the same buckets and differ only *)
(* in the empty lists and dictionaries that _get_lots has created.         *)
Stocked(m) ==
    [i \in {i \in DOMAIN m : \E w \in DOMAIN m[i] : m[i][w] # <<>>} |->
        [w \in {w \in DOMAIN m[i] : m[i][w] # <<>>} |-> m[i][w]]]

(* The call c made on mapping m and counter seq: what it returns and the   *)
(* ledger it leaves.                                                       *)
CallOn(m, seq, c) ==
    CASE c.op = "receive" ->
           LET r == ReceiveOn(m, seq, c.item_id, c.warehouse_id, c.qty,
                              c.cost_per_unit, c.lot_no, c.expiry_date)
           IN  [ret |-> RetRec(r.status, 0, <<>>, r.created),
                lots |-> r.lots, lot_seq |-> r.lot_seq]
      [] c.op = "issue" ->
           LET r == IssueOn(m, c.item_id, c.warehouse_id, c.qty)
           IN  [ret |-> RetRec(r.status, r.cost, r.consumed, <<>>),
                lots |-> r.lots, lot_seq |-> seq]
      [] c.op = "transfer" ->
           LET r == TransferOn(m, seq, c.item_id, c.warehouse_id, c.to_wh, c.qty)
           IN  [ret |-> RetRec(r.status, r.cost, r.consumed, r.created),
                lots |-> r.lots, lot_seq |-> r.lot_seq]
      [] c.op = "stock_on_hand" ->
           LET r == StockOnHandOn(m, c.item_id, c.warehouse_id)
           IN  [ret |-> RetRec("ok", r.value, <<>>, <<>>),
                lots |-> r.lots, lot_seq |-> seq]
      [] c.op = "stock_value" ->
           LET r == StockValueOn(m, c.item_id, c.warehouse_id)
           IN  [ret |-> RetRec("ok", r.value, <<>>, <<>>),
                lots |-> r.lots, lot_seq |-> seq]
      [] OTHER -> [ret |-> NoRet, lots |-> m, lot_seq |-> seq]

C18_WitnessReceiveAfterQuery ==
    /\ Succeeded("receive")
    /\ <<call.item_id, call.warehouse_id>> \in Keys(pre.lots)
    /\ PreBucket(call.item_id, call.warehouse_id) = <<>>
    /\ Len(Bucket(call.item_id, call.warehouse_id)) = 1

---------------------------------------------------------------------------
(* The quantities drawn times the unit costs of the lots they were drawn   *)
(* from, the lots being those at the front of the bucket before the call.  *)
RECURSIVE SumDrawn(_, _)
SumDrawn(cs, pb) ==
    IF cs = <<>> THEN 0
    ELSE Head(cs).qty * Head(pb).cost_per_unit + SumDrawn(Tail(cs), Tail(pb))

(* C19 as stated: the cost a successful issue returns equals the sum over  *)
(* its consumptions of quantity times the source lot's unit cost, and      *)
(* equals the bucket's stock value before the call minus its stock value   *)
(* after it.                                                               *)
C19_AsStated ==
    Succeeded("issue") =>
        LET i == call.item_id
            w == call.warehouse_id
        IN  /\ ret.value = SumDrawn(ret.consumed, PreBucket(i, w))
            /\ ret.value = PreValue(i, w) - Value(i, w)

(* C19: the cost a successful issue returns equals the sum over its        *)
(* consumptions of quantity times the source lot's unit cost.  The         *)
(* bucket's stock value is lower after the call by that cost plus the      *)
(* value of the remainder, at most the tolerance times the unit cost of    *)
(* the last lot drawn, that is removed with that lot; it is lower by       *)
(* exactly the cost when the last lot drawn is left with nothing or with   *)
(* more than the tolerance.                                                *)
C19_IssueValue ==
    Succeeded("issue") =>
        LET i == call.item_id
            w == call.warehouse_id
            cs == ret.consumed
        IN  /\ Len(cs) <= Len(PreBucket(i, w))
            /\ ret.value = SumDrawn(cs, PreBucket(i, w))
            /\ PreValue(i, w) - Value(i, w) = ret.value + DiscardedValue
            /\ cs # <<>> =>
                  Within(DiscardedValue, 0, tol * LastDrawn.lot.cost_per_unit)
            /\ (cs # <<>> /\ (LastDrawn.lot.qty = 0 \/ LastDrawn.lot.qty > tol))
                  => ret.value = PreValue(i, w) - Value(i, w)
            /\ cs = <<>> => ret.value = 0 /\ Value(i, w) = PreValue(i, w)

(* An issue has drawn from two lots of different unit costs and removed    *)
(* the second with a remainder in it.                                      *)
C19_Witness ==
    /\ Succeeded("issue")
    /\ Len(ret.consumed) = 2
    /\ ret.consumed[1].lot.cost_per_unit # ret.consumed[2].lot.cost_per_unit
    /\ DiscardedValue > 0
    /\ ret.value < PreValue(call.item_id, call.warehouse_id)
                      - Value(call.item_id, call.warehouse_id)

---------------------------------------------------------------------------
(* The buckets a call names: (item, warehouse) for receive and issue,      *)
(* (item, from) and (item, to) for transfer.                               *)
OwnKeys ==
    IF call.op = "transfer"
    THEN {<<call.item_id, call.warehouse_id>>, <<call.item_id, call.to_wh>>}
    ELSE {<<call.item_id, call.warehouse_id>>}

(* C20: receive, issue and transfer change no lot in any bucket other than *)
(* those the call names: every other bucket, of every other item and every *)
(* other warehouse, holds after the call the sequence it held before it,   *)
(* with the same quantities, whether the call succeeded or failed; and the *)
(* call creates no key other than those of the buckets it names.           *)
C20_Frame ==
    call.op \in {"receive", "issue", "transfer"} =>
        /\ \A key \in (Keys(lots) \cup Keys(pre.lots)) \ OwnKeys :
              Bucket(key[1], key[2]) = PreBucket(key[1], key[2])
        /\ Keys(lots) \ OwnKeys = Keys(pre.lots) \ OwnKeys
        /\ DOMAIN lots \ {call.item_id} = DOMAIN pre.lots \ {call.item_id}

(* A transfer has moved stock of one item between two warehouses while a   *)
(* bucket of another item held a lot.                                      *)
C20_Witness ==
    /\ Succeeded("transfer")
    /\ ret.created # <<>>
    /\ call.warehouse_id # call.to_wh
    /\ \E key \in Keys(pre.lots) \ OwnKeys :
          key[1] # call.item_id /\ PreBucket(key[1], key[2]) # <<>>

(* An issue has failed while another warehouse of the item and a bucket of *)
(* another item held lots.                                                 *)
C20_WitnessFailure ==
    /\ call.op = "issue"
    /\ ret.status = "NegativeStockError"
    /\ \E key \in Keys(pre.lots) \ OwnKeys :
          key[1] # call.item_id /\ PreBucket(key[1], key[2]) # <<>>
    /\ \E key \in Keys(pre.lots) \ OwnKeys :
          key[1] = call.item_id /\ PreBucket(key[1], key[2]) # <<>>

===========================================================================
